---------------------------- MODULE Spec2Model ----------------------------
(***************************************************************************)
(* A model of the clickonce package (clickonce.go): a session object that  *)
(* decodes a root deployment manifest, walks its install-tagged dependents *)
(* and files, downloads and verifies each entry and descends into nested   *)
(* manifests.                                                              *)
(*                                                                         *)
(* Strings that the code takes apart are modelled by their parts:          *)
(*   - a file name is the sequence of its dot-separated parts              *)
(*     ("a.exe" is <<"a","exe">>, "" is <<>>);                             *)
(*   - a manifest path is a record [sep, dir, name]: the separator used    *)
(*     in the raw string, the directory segments and the file name;        *)
(*   - a URL is a record [nil, dir, name] on one host;                     *)
(*   - a size attribute is the sequence of its characters;                 *)
(*   - a body is an abstract document id with a length (BodyLen) and a     *)
(*     decoding (decodeManifest); a digest is the pair <<algorithm, body>>,*)
(*     that is, sha1/sha256 followed by base64 are taken collision free.   *)
(***************************************************************************)
EXTENDS Integers, Sequences, FiniteSets, TLC

VARIABLES
    world,      \* the deployment served over HTTP (fixed for a behaviour)
    co,         \* the ClickOnce struct
    disk,       \* files written below the output directory: path -> content
    last,       \* the last public call: what it was given, returned and fetched
    ncalls,     \* number of calls of Get and GetAll made on an initialized session
    initFailed  \* whether Init has failed and has not succeeded since

vars == <<world, co, disk, last, ncalls, initFailed>>

(***************************************************************************)
(* Bounds of the model.                                                    *)
(***************************************************************************)
\* calls of Get and GetAll on an initialized session in one behaviour (a call
\* on a session that is not initialized changes nothing and is not counted)
MaxCalls == 2
\* entries (dependents plus files) of the root manifest
MaxEntries == 2

(***************************************************************************)
(* Small helpers.                                                          *)
(***************************************************************************)
Front(s) == SubSeq(s, 1, Len(s) - 1)

LastOf(s) == s[Len(s)]

Range(s) == {s[i] : i \in DOMAIN s}

Put(f, k, v) == [x \in (DOMAIN f) \cup {k} |-> IF x = k THEN v ELSE f[x]]

EmptyMap == [x \in {} |-> 0]

NoErr == "nil"

(***************************************************************************)
(* type coType                                                             *)
(***************************************************************************)
AssemblyDependency == 0

NonAssemblyFile == 1

manifestExtension == "manifest"

deployedFileExtension == "deploy"

(***************************************************************************)
(* File names, manifest paths and URLs.                                    *)
(***************************************************************************)
\* path.Ext(name): the part after the last dot of the last element, "" if none
Ext(name) == IF Len(name) > 1 THEN LastOf(name) ELSE ""

\* isManifest(filename)
isManifest(name) == Ext(name) = manifestExtension

Path(sep, dir, name) == [sep |-> sep, dir |-> dir, name |-> name]

EmptyPath == Path("/", <<>>, <<>>)

\* strings.Replace(p, "\\", "/", -1)
PosixPath(p) == [p EXCEPT !.sep = "/"]

\* path.Base(posix path)
BaseName(p) == p.name

NilUrl == [nil |-> TRUE, dir |-> <<>>, name |-> <<>>]

Url(dir, name) == [nil |-> FALSE, dir |-> dir, name |-> name]

\* (*url.URL).Parse(ref) for a relative reference without dot segments: the
\* reference replaces the last element of the base
UrlParse(base, ref) == Url(base.dir \o ref.dir, ref.name)

\* downloadUrl += ".deploy"
AddSuffix(u) == [u EXCEPT !.name = @ \o <<deployedFileExtension>>]

\* strings.TrimSuffix(downloadUrl, path.Ext(downloadUrl))
TrimExt(u) == IF Len(u.name) > 1 THEN [u EXCEPT !.name = Front(@)] ELSE u

(***************************************************************************)
(* strconv.Atoi on the characters of a size attribute.                     *)
(***************************************************************************)
Digits == <<"0", "1", "2", "3", "4", "5", "6", "7", "8", "9">>

IsDigit(c) == \E i \in DOMAIN Digits : Digits[i] = c

DigitVal(c) == (CHOOSE i \in DOMAIN Digits : Digits[i] = c) - 1

RECURSIVE DecVal(_)
DecVal(ds) == IF ds = <<>> THEN 0 ELSE 10 * DecVal(Front(ds)) + DigitVal(LastOf(ds))

Atoi(s) ==
    LET signed == Len(s) > 0 /\ s[1] \in {"+", "-"}
        ds == IF signed THEN Tail(s) ELSE s
    IN  IF ds = <<>> \/ \E i \in DOMAIN ds : ~IsDigit(ds[i])
        THEN [err |-> "size-not-numeric", val |-> 0]
        ELSE [err |-> NoErr,
              val |-> IF signed /\ s[1] = "-" THEN 0 - DecVal(ds) ELSE DecVal(ds)]

(***************************************************************************)
(* The Algorithm attribute: a URI reference <<before '#', after '#'>>.      *)
(***************************************************************************)
XmlDsig == "http://www.w3.org/2000/09/xmldsig"

\* url.Parse(algorithm).Fragment; a reference that starts with a colon has
\* no protocol scheme and does not parse
AlgFragment(alg) ==
    IF alg[1] = ":" THEN [err |-> "algorithm-parse", frag |-> ""]
    ELSE [err |-> NoErr, frag |-> alg[2]]

\* strings.ToLower on the fragments used here
ToLower(s) ==
    CASE s = "SHA1" -> "sha1"
      [] s = "SHA256" -> "sha256"
      [] s = "MD5" -> "md5"
      [] OTHER -> s

(***************************************************************************)
(* Bodies, digests.                                                        *)
(***************************************************************************)
BodyLen(b) ==
    CASE b = "" -> 0
      [] b = "a" -> 2
      [] b = "b" -> 3
      [] b = "c" -> 1
      [] b = "n" -> 4
      [] b = "m" -> 4
      [] b = "j" -> 4
      [] b = "root" -> 6
      [] OTHER -> 1

\* base64.StdEncoding.EncodeToString(sha1.Sum(body) / sha256.Sum256(body))
Checksum(algorithm, body) ==
    IF algorithm = "sha1" THEN <<"sha1", body>> ELSE <<"sha256", body>>

(***************************************************************************)
(* Manifest entries (coBase, coFile, coDependentAssembly, coAssembly).     *)
(***************************************************************************)
coBase(size, algorithm, digest) ==
    [Size |-> size, Algorithm |-> algorithm, DigestValue |-> digest]

coFile(name, base) == [Name |-> name, coBase |-> base]

coDependentAssembly(codebase, type, base) ==
    [Codebase |-> codebase, DependencyType |-> type, coBase |-> base]

coAssembly(deps, files) ==
    [nil |-> FALSE, DependentAssembly |-> deps, File |-> files]

NilAssembly == [nil |-> TRUE, DependentAssembly |-> <<>>, File |-> <<>>]

(***************************************************************************)
(* The deployments the model draws from.  File names and paths:            *)
(***************************************************************************)
nmA == <<"a", "exe">>

nmB == <<"b", "dll">>

nmC == <<"c", "dat">>

nmZ == <<"z", "txt">>

nmN == <<"n", "manifest">>

nmM == <<"m", "manifest">>

nmJ == <<"j", "manifest">>

nmQ == <<"q", "bin">>

nmRoot == <<"root", "application">>

pathA == Path("/", <<>>, nmA)

\* "lib\b.dll": a raw path that uses the backslash separator
pathB == Path("\\", <<"lib">>, nmB)

pathC == Path("/", <<>>, nmC)

pathZ == Path("/", <<>>, nmZ)

pathN == Path("/", <<"sub">>, nmN)

pathM == Path("/", <<>>, nmM)

pathJ == Path("/", <<>>, nmJ)

pathPre == Path("/", <<>>, <<"pre", "dll">>)

Sha256 == <<XmlDsig, "sha256">>

Sha1Upper == <<XmlDsig, "SHA1">>

Md5 == <<XmlDsig, "md5">>

\* a well-formed entry for body b: its size in decimal and its digest
Good(size, algorithm, body) ==
    coBase(size, algorithm, Checksum(ToLower(algorithm[2]), body))

\* files
fA == coFile(pathA, Good(<<"2">>, Sha256, "a"))

fB == coFile(pathB, Good(<<"0", "3">>, Sha1Upper, "b"))

fZ == coFile(pathZ, Good(<<"0">>, Sha256, ""))

fM == coFile(pathM, Good(<<"4">>, Sha256, "m"))

fEmptyPath == coFile(EmptyPath, Good(<<"2">>, Sha256, "a"))

fNaN == coFile(pathC, Good(<<"x">>, Sha256, "c"))

fWrongSize == coFile(pathC, Good(<<"5">>, Sha256, "c"))

fWrongDigest == coFile(pathC, Good(<<"1">>, Sha256, "a"))

\* dependent assemblies
dN == coDependentAssembly(pathN, "install", Good(<<"4">>, Sha256, "n"))

dJ == coDependentAssembly(pathJ, "install", Good(<<"4">>, Sha256, "j"))

dA == coDependentAssembly(pathA, "install", Good(<<"2">>, Sha256, "a"))

dPre == coDependentAssembly(pathPre, "prerequisite", Good(<<"2">>, Sha256, "a"))

dMd5 == coDependentAssembly(pathC, "install", Good(<<"1">>, Md5, "c"))

FilePool == {fA, fB, fZ, fM, fEmptyPath, fNaN, fWrongSize, fWrongDigest}

DepPool == {dN, dJ, dA, dPre, dMd5}

SeqsUpTo(S, n) == UNION {[1..k -> S] : k \in 0..n}

\* root manifests: at most MaxEntries entries in all
RootPool ==
    {coAssembly(d, f) : <<d, f>> \in
        {x \in SeqsUpTo(DepPool, MaxEntries) \X SeqsUpTo(FilePool, MaxEntries) :
            Len(x[1]) + Len(x[2]) <= MaxEntries}}

\* the manifest served as sub/n.manifest: a file also named by the root
\* (a diamond), a reference to its own path (a cycle), a failing entry
NestedPool ==
    { coAssembly(<<>>, <<fA>>),
      coAssembly(<<dN>>, <<fB>>),
      coAssembly(<<>>, <<fNaN, fA>>) }

\* the manifest served as m.manifest
ManifestM == coAssembly(<<>>, <<fB>>)

(***************************************************************************)
(* The HTTP server.  style: payload files are published with the ".deploy" *)
(* suffix or under their plain names.  dirs: a file is published only in   *)
(* the directory its manifest names, or the server answers for a file name *)
(* in any directory.  A 404 response has an empty body.                    *)
(***************************************************************************)
\* (n.manifest is drawn from NestedPool only when the root manifest names it)
Worlds ==
    {w \in [root : RootPool, nested : NestedPool,
            style : {"deploy", "plain"}, dirs : {"strict", "any"}] :
        dN \in Range(w.root.DependentAssembly) \/ w.nested = coAssembly(<<>>, <<fA>>)}

rootUrl == Url(<<>>, nmRoot)

emptyUrl == Url(<<>>, <<"empty", "application">>)

junkUrl == Url(<<>>, <<"junk", "application">>)

missingUrl == Url(<<>>, <<"missing", "application">>)

\* the document published under a plain file name, and where
Published(name) ==
    CASE name = nmA -> [body |-> "a", dirs |-> {<<>>, <<"sub">>}, payload |-> TRUE]
      [] name = nmB -> [body |-> "b", dirs |-> {<<"lib">>, <<"sub", "lib">>}, payload |-> TRUE]
      [] name = nmC -> [body |-> "c", dirs |-> {<<>>}, payload |-> TRUE]
      [] name = nmZ -> [body |-> "", dirs |-> {<<>>}, payload |-> TRUE]
      [] name = nmN -> [body |-> "n", dirs |-> {<<"sub">>}, payload |-> FALSE]
      [] name = nmM -> [body |-> "m", dirs |-> {<<>>}, payload |-> FALSE]
      [] name = nmJ -> [body |-> "j", dirs |-> {<<>>}, payload |-> FALSE]
      [] name = nmRoot -> [body |-> "root", dirs |-> {<<>>}, payload |-> FALSE]
      [] name = emptyUrl.name -> [body |-> "", dirs |-> {<<>>}, payload |-> FALSE]
      [] name = junkUrl.name -> [body |-> "j", dirs |-> {<<>>}, payload |-> FALSE]
      [] OTHER -> [body |-> "", dirs |-> {}, payload |-> FALSE]

NotFound == [status |-> 404, body |-> ""]

\* download(url): the response of the server of world w
download(w, u) ==
    LET suffixed == Len(u.name) > 1 /\ LastOf(u.name) = deployedFileExtension
        plain == IF suffixed THEN Front(u.name) ELSE u.name
        doc == Published(plain)
        named == IF doc.payload /\ w.style = "deploy" THEN suffixed ELSE ~suffixed
        placed == IF w.dirs = "any" THEN doc.dirs # {} ELSE u.dir \in doc.dirs
    IN  IF named /\ placed THEN [status |-> 200, body |-> doc.body] ELSE NotFound

\* decodeManifest(data)
decodeManifest(w, data) ==
    CASE data = "root" -> [err |-> NoErr, assembly |-> w.root]
      [] data = "n" -> [err |-> NoErr, assembly |-> w.nested]
      [] data = "m" -> [err |-> NoErr, assembly |-> ManifestM]
      [] OTHER -> [err |-> "decode", assembly |-> NilAssembly]

(***************************************************************************)
(* The ClickOnce struct after construction (the zero value).               *)
(***************************************************************************)
NilSubset == [nil |-> TRUE, m |-> EmptyMap]

ZeroClickOnce ==
    [ deployedFiles |-> EmptyMap,
      subset        |-> NilSubset,
      baseUrl       |-> NilUrl,
      assembly      |-> NilAssembly,
      outputDir     |-> "",
      noSuffix      |-> FALSE,
      offline       |-> FALSE,
      notFound      |-> 0 ]

NoDecl == coBase(<<>>, <<"", "">>, <<>>)

\* one step of a traversal, kept in the order in which the code takes them:
\*   "resolve"  an entry's URL was computed (base: the base URL it was
\*              resolved against, decl: the entry's size and hash, type:
\*              whether a dependent or a file entry)
\*   "fetch"    a GET was issued (status, body: the response)
\*   "error"    visiting the entry raised err (body: the body that was
\*              checked, for a size or digest mismatch)
\*   "add"      the entry was put into deployedFiles with content body
Event(ev, path, url, base, status, err, body, decl, type) ==
    [ev |-> ev, path |-> path, url |-> url, base |-> base, status |-> status,
     err |-> err, body |-> body, decl |-> decl, type |-> type]

\* the type of an event that carries none
NoType == -1

ResolveEvent(path, url, base, decl, type) ==
    Event("resolve", path, url, base, 0, NoErr, "", decl, type)

FetchEvent(path, url, status, body) ==
    Event("fetch", path, url, NilUrl, status, NoErr, body, NoDecl, NoType)

ErrorEvent(path, err, body) ==
    Event("error", path, NilUrl, NilUrl, 0, err, body, NoDecl, NoType)

AddEvent(path, url, body) ==
    Event("add", path, url, NilUrl, 0, NoErr, body, NoDecl, NoType)

(***************************************************************************)
(* remoteFileInfo                                                          *)
(***************************************************************************)
NoFile == [url |-> NilUrl, size |-> 0, digest |-> <<>>, algorithm |-> ""]

\* after both conversions
remoteFileParsed(deployedFileUrl, deployedFile, size, alg) ==
    IF size.err # NoErr THEN [err |-> size.err, file |-> NoFile]
    ELSE IF alg.err # NoErr THEN [err |-> alg.err, file |-> NoFile]
    ELSE [err |-> NoErr,
          file |-> [url |-> deployedFileUrl, size |-> size.val,
                    digest |-> deployedFile.DigestValue,
                    algorithm |-> ToLower(alg.frag)]]

remoteFileInfo(deployedFileUrl, deployedFile) ==
    remoteFileParsed(deployedFileUrl, deployedFile,
                     Atoi(deployedFile.Size), AlgFragment(deployedFile.Algorithm))

(***************************************************************************)
(* downloadAndCheck: the body, the suffix hint, the error and the          *)
(* requests issued (url, status and body of each response).                *)
(***************************************************************************)
Request(u, res) == [url |-> u, status |-> res.status, body |-> res.body]

\* read: the body that was read from the response, "" when none was
Checked(body, suffix, err, reqs, read) ==
    [body |-> body, suffix |-> suffix, err |-> err, reqs |-> reqs, read |-> read]

\* the size and digest checks on the body that was read
\* a variant of verify that compares the size only
verifySizeOnly(file, body, suffix, reqs) ==
    IF file.size # BodyLen(body) THEN Checked("", suffix, "size-mismatch", reqs, body)
    ELSE Checked(body, suffix, NoErr, reqs, body)

verify(file, body, suffix, reqs) ==
    IF file.size # BodyLen(body) THEN Checked("", suffix, "size-mismatch", reqs, body)
    ELSE IF file.digest # Checksum(file.algorithm, body)
    THEN Checked("", suffix, "digest-mismatch", reqs, body)
    ELSE Checked(body, suffix, NoErr, reqs, body)

\* the response whose body is read after the 404 branch: the variable res
\* of the enclosing scope, which the ":=" inside the branch does not assign
ResponseRead(first, second) == first

\* the 404 branch, after its request
retried(file, suffix, first, second, reqs) ==
    IF second.status = 404 THEN Checked("", suffix, "not-found", reqs, "")
    ELSE verify(file, ResponseRead(first, second).body, FALSE, reqs)

retry(w, file, suffix, downloadUrl, first, retryUrl, second) ==
    retried(file, suffix, first, second,
            <<Request(downloadUrl, first), Request(retryUrl, second)>>)

\* after the first request
responded(w, file, suffix, downloadUrl, first) ==
    IF first.status = 404
    THEN retry(w, file, suffix, downloadUrl, first,
               TrimExt(downloadUrl), download(w, TrimExt(downloadUrl)))
    ELSE verify(file, first.body, suffix, <<Request(downloadUrl, first)>>)

requested(w, file, suffix, downloadUrl) ==
    responded(w, file, suffix, downloadUrl, download(w, downloadUrl))

\* a variant of firstUrl that appends the suffix to manifests too
firstUrlSuffixed(file, suffix) ==
    IF suffix THEN AddSuffix(file.url) ELSE file.url

\* the URL of the first request
firstUrl(file, suffix) ==
    IF suffix /\ ~isManifest(file.url.name) THEN AddSuffix(file.url) ELSE file.url

downloadAndCheck(w, file, suffix) ==
    IF file.algorithm # "sha1" /\ file.algorithm # "sha256"
    THEN Checked("", suffix, "unsupported-algorithm", <<>>, "")
    ELSE requested(w, file, suffix, firstUrl(file, suffix))

(***************************************************************************)
(* The traversal.  A context c is [co, trace]: the struct and the events   *)
(* of the running call.  A visit returns [c, err].                         *)
(***************************************************************************)
Ctx(c, trace) == [co |-> c, trace |-> trace]

Ret(c, err) == [c |-> c, err |-> err]

RECURSIVE retrieveDeployedFile(_, _, _, _, _)
RECURSIVE retrieveAllDeployedFiles(_, _, _)
RECURSIVE retrieveDependents(_, _, _, _)
RECURSIVE retrieveFiles(_, _, _, _)

\* an entry's visit ends with err
failed(c, path, err, body) ==
    Ret(Ctx(c.co, Append(c.trace, ErrorEvent(path, err, body))), err)

\* subApplication, after decodeManifest
decoded(w, c, path, dec) ==
    IF dec.err # NoErr THEN failed(c, path, dec.err, "")
    ELSE retrieveAllDeployedFiles(w, c, dec.assembly)

\* subApplication
subApplication(w, c, manifestContent, path) ==
    decoded(w, c, path, decodeManifest(w, manifestContent))

\* the struct once a verified body is recorded
recorded(c, path, name, type, dl) ==
    [c EXCEPT
       !.noSuffix = ~dl.suffix,
       !.deployedFiles = Put(@, path, [Type |-> type, Content |-> dl.body]),
       !.subset = IF @.nil THEN @ ELSE [@ EXCEPT !.m = Put(@, name, TRUE)]]

FetchEvents(path, reqs) ==
    [i \in DOMAIN reqs |-> FetchEvent(path, reqs[i].url, reqs[i].status, reqs[i].body)]

\* retrieveDeployedFile, after downloadAndCheck
downloaded(w, c, path, name, type, url, dl) ==
    IF dl.err # NoErr
    THEN failed(Ctx(c.co, c.trace \o FetchEvents(path, dl.reqs)), path, dl.err, dl.read)
    ELSE IF isManifest(name)
    THEN subApplication(w,
            Ctx(recorded(c.co, path, name, type, dl),
                Append(c.trace \o FetchEvents(path, dl.reqs),
                       AddEvent(path, url, dl.body))),
            dl.body, path)
    ELSE Ret(Ctx(recorded(c.co, path, name, type, dl),
                 Append(c.trace \o FetchEvents(path, dl.reqs),
                        AddEvent(path, url, dl.body))),
             NoErr)

\* retrieveDeployedFile, after remoteFileInfo
informed(w, c, path, name, type, url, info) ==
    IF info.err # NoErr THEN failed(c, path, info.err, "")
    ELSE downloaded(w, c, path, name, type, url,
                    downloadAndCheck(w, info.file, ~c.co.noSuffix))

\* a variant of rebase that follows a manifest of either entry type
rebaseAnyManifest(baseUrl, name, type, url) ==
    IF isManifest(name) THEN url ELSE baseUrl

\* the base URL after an entry is resolved
rebase(baseUrl, name, type, url) ==
    IF type = AssemblyDependency /\ isManifest(name) THEN url ELSE baseUrl

\* retrieveDeployedFile, after the entry's URL is resolved
resolved(w, c, path, name, deployedFile, type, url) ==
    informed(w,
             Ctx([c.co EXCEPT !.baseUrl = rebase(@, name, type, url)],
                 Append(c.trace, ResolveEvent(path, url, c.co.baseUrl, deployedFile, type))),
             path, name, type, url, remoteFileInfo(url, deployedFile))

\* a variant of the subset filter that skips manifests like any other entry
filteredManifestsToo(c, name) == ~c.subset.nil /\ name \notin DOMAIN c.subset.m

\* the subset filter on an entry
filtered(c, name) ==
    ~c.subset.nil /\ ~isManifest(name) /\ name \notin DOMAIN c.subset.m

\* a variant of retrieveDeployedFile that skips only the manifests already
\* present
retrieveDeployedFileAgain(w, c, deployedFilePath, deployedFile, deployedFileType) ==
    IF deployedFilePath = EmptyPath THEN Ret(c, NoErr)
    ELSE IF filtered(c.co, BaseName(PosixPath(deployedFilePath))) THEN Ret(c, NoErr)
    ELSE IF /\ deployedFilePath \in DOMAIN c.co.deployedFiles
            /\ isManifest(BaseName(PosixPath(deployedFilePath)))
    THEN Ret(c, NoErr)
    ELSE resolved(w, c, deployedFilePath, BaseName(PosixPath(deployedFilePath)),
                  deployedFile, deployedFileType,
                  UrlParse(c.co.baseUrl, PosixPath(deployedFilePath)))

\* retrieveDeployedFile
retrieveDeployedFile(w, c, deployedFilePath, deployedFile, deployedFileType) ==
    IF deployedFilePath = EmptyPath THEN Ret(c, NoErr)
    ELSE IF filtered(c.co, BaseName(PosixPath(deployedFilePath))) THEN Ret(c, NoErr)
    ELSE IF deployedFilePath \in DOMAIN c.co.deployedFiles THEN Ret(c, NoErr)
    ELSE resolved(w, c, deployedFilePath, BaseName(PosixPath(deployedFilePath)),
                  deployedFile, deployedFileType,
                  UrlParse(c.co.baseUrl, PosixPath(deployedFilePath)))

\* a loop of retrieveAllDeployedFiles: [c, done, err], done when the
\* function has returned
Loop(c, done, err) == [c |-> c, done |-> done, err |-> err]

\* the first loop after the visit of dependent i
dependentVisited(w, r, deps, i) ==
    IF r.err # NoErr THEN Loop(r.c, TRUE, NoErr)      \* return nil
    ELSE retrieveDependents(w, r.c, deps, i + 1)

\* the first loop of retrieveAllDeployedFiles, from dependent i on
retrieveDependents(w, c, deps, i) ==
    IF i > Len(deps) THEN Loop(c, FALSE, NoErr)
    ELSE IF deps[i].DependencyType # "install" THEN retrieveDependents(w, c, deps, i + 1)
    ELSE dependentVisited(w,
            retrieveDeployedFile(w, c, deps[i].Codebase, deps[i].coBase,
                                 AssemblyDependency),
            deps, i)

\* the second loop after the visit of file i
fileVisited(w, r, files, i) ==
    IF r.err # NoErr THEN Loop(r.c, TRUE, NoErr)      \* return nil
    ELSE retrieveFiles(w, r.c, files, i + 1)

\* the second loop of retrieveAllDeployedFiles, from file i on
retrieveFiles(w, c, files, i) ==
    IF i > Len(files) THEN Loop(c, FALSE, NoErr)
    ELSE fileVisited(w,
            retrieveDeployedFile(w, c, files[i].Name, files[i].coBase, NonAssemblyFile),
            files, i)

\* a variant of dependentsDone that never visits the files of a manifest
dependentsDoneNoFiles(w, d, assembly) == Ret(d.c, d.err)

\* retrieveAllDeployedFiles, after its first loop
dependentsDone(w, d, assembly) ==
    IF d.done THEN Ret(d.c, d.err)
    ELSE retrieveFiles(w, d.c, assembly.File, 1)

\* retrieveAllDeployedFiles: [c, err]
retrieveAllDeployedFiles(w, c, assembly) ==
    dependentsDone(w, retrieveDependents(w, c, assembly.DependentAssembly, 1), assembly)

(***************************************************************************)
(* Subsets.  A subset argument is [nil, names]: a nil slice or a slice of  *)
(* file names.                                                             *)
(***************************************************************************)
NilArg == [nil |-> TRUE, names |-> <<>>]

Arg(names) == [nil |-> FALSE, names |-> names]

\* initSubset: the map is replaced first; the loop stops at an empty name
initSubset(c, subset) ==
    LET bad == {i \in DOMAIN subset : subset[i] = <<>>}
        stop == IF bad = {} THEN Len(subset) + 1
                ELSE CHOOSE i \in bad : \A j \in bad : i <= j
        seen == {subset[i] : i \in 1..(stop - 1)}
    IN  [co |-> [c EXCEPT !.subset = [nil |-> FALSE, m |-> [s \in seen |-> FALSE]]],
         err |-> IF bad = {} THEN NoErr ELSE "empty-filename"]

\* a variant of checkDownload that marks nothing
checkDownloadNothing(c) == c

\* checkDownload
checkDownload(c) ==
    LET present == {BaseName(PosixPath(p)) : p \in DOMAIN c.deployedFiles}
    IN  [c EXCEPT !.subset.m =
            [s \in DOMAIN @ |-> IF s \in present THEN TRUE ELSE @[s]]]

\* findSubset
findSubset(c, subset) ==
    LET missing == Cardinality({i \in DOMAIN subset :
                       ~(subset[i] \in DOMAIN c.subset.m /\ c.subset.m[subset[i]])})
        notFound == c.notFound + missing
    IN  [co |-> [c EXCEPT !.notFound = notFound],
         err |-> IF notFound = Len(subset) THEN "none-found" ELSE NoErr]

(***************************************************************************)
(* Persistence.                                                            *)
(***************************************************************************)
\* path.Join(co.outputDir, codebase)
DiskPath(outputDir, codebase) == [out |-> outputDir, path |-> codebase]

\* saveDeployedFile: whether the file passes the subset filter
saved(c, deployedFilePath) ==
    c.subset.nil \/ BaseName(PosixPath(deployedFilePath)) \in DOMAIN c.subset.m

\* saveAllDeployedFiles, on a file system that does not fail
saveAllDeployedFiles(c, d) ==
    LET written == {p \in DOMAIN c.deployedFiles : saved(c, p)}
        target(p) == DiskPath(c.outputDir, PosixPath(p))
        source(t) == CHOOSE p \in written : target(p) = t
    IN  [t \in (DOMAIN d) \cup {target(p) : p \in written} |->
            IF \E p \in written : target(p) = t
            THEN c.deployedFiles[source(t)].Content
            ELSE d[t]]

(***************************************************************************)
(* Get, GetAll, Init: the struct, the disk, the error returned and the     *)
(* events of the call.                                                     *)
(***************************************************************************)
Result(c, d, err, trace) == [co |-> c, disk |-> d, err |-> err, trace |-> trace]

\* a variant of the last stage of Get that persists only on success
foundSaveOnSuccess(c, d, validSubset, fs, trace) ==
    IF fs.err # NoErr THEN Result(fs.co, d, fs.err, trace)
    ELSE IF validSubset /\ fs.co.notFound # 0
    THEN Result(fs.co, d, "not-all-found", trace)
    ELSE Result(fs.co,
                IF fs.co.outputDir # "" THEN saveAllDeployedFiles(fs.co, d) ELSE d,
                NoErr, trace)

\* Get, after findSubset
found(c, d, validSubset, fs, trace) ==
    IF fs.err # NoErr THEN Result(fs.co, d, fs.err, trace)
    ELSE IF validSubset /\ fs.co.notFound # 0
    THEN Result(fs.co,
                IF fs.co.outputDir # "" THEN saveAllDeployedFiles(fs.co, d) ELSE d,
                "not-all-found", trace)
    ELSE Result(fs.co,
                IF fs.co.outputDir # "" THEN saveAllDeployedFiles(fs.co, d) ELSE d,
                NoErr, trace)

\* Get, after the traversal or the offline check
traversed(c, d, subset, validSubset, trav) ==
    IF trav.err # NoErr THEN Result(trav.c.co, d, trav.err, trav.c.trace)
    ELSE found([trav.c.co EXCEPT !.notFound = 0], d, validSubset,
               IF validSubset
               THEN findSubset([trav.c.co EXCEPT !.notFound = 0], subset.names)
               ELSE [co |-> [trav.c.co EXCEPT !.notFound = 0], err |-> NoErr],
               trav.c.trace)

\* a variant of subsetReady in which each pass starts from an empty result
\* mapping
subsetReadyAfresh(w, d, subset, validSubset, init) ==
    IF init.err # NoErr THEN Result(init.co, d, init.err, <<>>)
    ELSE traversed(init.co, d, subset, validSubset,
            IF ~init.co.offline
            THEN retrieveAllDeployedFiles(w,
                    Ctx([init.co EXCEPT !.deployedFiles = EmptyMap], <<>>),
                    init.co.assembly)
            ELSE Ret(Ctx(IF validSubset THEN checkDownload(init.co) ELSE init.co, <<>>),
                     NoErr))

\* Get, after initSubset
subsetReady(w, d, subset, validSubset, init) ==
    IF init.err # NoErr THEN Result(init.co, d, init.err, <<>>)
    ELSE traversed(init.co, d, subset, validSubset,
            IF ~init.co.offline
            THEN retrieveAllDeployedFiles(w, Ctx(init.co, <<>>), init.co.assembly)
            ELSE Ret(Ctx(IF validSubset THEN checkDownload(init.co) ELSE init.co, <<>>),
                     NoErr))

\* a subset that is neither nil nor empty
validSubset(subset) == ~subset.nil /\ Len(subset.names) # 0

\* a variant of Get without the check that the session is initialized
GetUnchecked(w, c, d, subset) ==
    subsetReady(w, d, subset, validSubset(subset),
        IF validSubset(subset) THEN initSubset(c, subset.names)
        ELSE [co |-> c, err |-> NoErr])

Get(w, c, d, subset) ==
    IF c.baseUrl.nil \/ c.assembly.nil THEN Result(c, d, "not-initialized", <<>>)
    ELSE subsetReady(w, d, subset, validSubset(subset),
            IF validSubset(subset) THEN initSubset(c, subset.names)
            ELSE [co |-> c, err |-> NoErr])

\* GetAll, after Get
got(r) == IF r.err # NoErr THEN r ELSE [r EXCEPT !.co.offline = TRUE]

GetAll(w, c, d) == got(Get(w, c, d, NilArg))

\* Init; the empty string is NilUrl
fetchedApp(w, c, appUrl, res, dec) ==
    IF res.status = 404 THEN [co |-> c, err |-> "no-application"]
    ELSE IF BodyLen(res.body) = 0 THEN [co |-> c, err |-> "empty-application"]
    ELSE IF dec.err # NoErr
    THEN [co |-> [c EXCEPT !.assembly = dec.assembly], err |-> dec.err]
    ELSE [co |-> [c EXCEPT !.assembly = dec.assembly, !.baseUrl = appUrl],
          err |-> NoErr]

Init(w, c, appUrl) ==
    IF appUrl = NilUrl THEN [co |-> c, err |-> "missing-url"]
    ELSE fetchedApp(w, c, appUrl, download(w, appUrl),
                    decodeManifest(w, download(w, appUrl).body))

\* SetOutputDir
SetOutputDir(c, outputDir) == [c EXCEPT !.outputDir = outputDir]

(***************************************************************************)
(* The state machine: one action per public operation.                     *)
(***************************************************************************)
InitUrls == {NilUrl, rootUrl, missingUrl, emptyUrl, junkUrl}

SubsetArgs ==
    { Arg(<<>>), Arg(<<nmA>>), Arg(<<nmB>>), Arg(<<nmA, nmB>>), Arg(<<nmA, <<>>>>) }

OutputDirs == {"out"}

Call(op, url, subset, pre, err, trace) ==
    [op |-> op, url |-> url, subset |-> subset, pre |-> pre, err |-> err, trace |-> trace]

NoCall == Call("none", NilUrl, NilArg, ZeroClickOnce, NoErr, <<>>)

Initialized(c) == ~c.baseUrl.nil /\ ~c.assembly.nil

Counted(c) == IF Initialized(c) THEN 1 ELSE 0

ModelInit ==
    /\ world \in Worlds
    /\ co = ZeroClickOnce
    /\ disk = EmptyMap
    /\ last = NoCall
    /\ ncalls = 0
    /\ initFailed = FALSE

\* Init may be called at any time, on an initialized session too
DoInit ==
    /\ \E u \in InitUrls :
          LET r == Init(world, co, u)
          IN  /\ co' = r.co
              /\ last' = Call("Init", u, NilArg, co, r.err, <<>>)
              /\ initFailed' = (r.err # NoErr)
    /\ UNCHANGED <<world, disk, ncalls>>

DoSetOutputDir ==
    /\ \E dir \in OutputDirs :
          /\ dir # co.outputDir
          /\ co' = SetOutputDir(co, dir)
          /\ last' = Call("SetOutputDir", NilUrl, NilArg, co, NoErr, <<>>)
    /\ UNCHANGED <<world, disk, ncalls, initFailed>>

DoGet ==
    /\ ncalls < MaxCalls
    /\ \E s \in SubsetArgs :
          LET r == Get(world, co, disk, s)
          IN  /\ co' = r.co
              /\ disk' = r.disk
              /\ last' = Call("Get", NilUrl, s, co, r.err, r.trace)
    /\ ncalls' = ncalls + Counted(co)
    /\ UNCHANGED <<world, initFailed>>

DoGetAll ==
    /\ ncalls < MaxCalls
    /\ LET r == GetAll(world, co, disk)
       IN  /\ co' = r.co
           /\ disk' = r.disk
           /\ last' = Call("GetAll", NilUrl, NilArg, co, r.err, r.trace)
    /\ ncalls' = ncalls + Counted(co)
    /\ UNCHANGED <<world, initFailed>>

Next == DoInit \/ DoSetOutputDir \/ DoGet \/ DoGetAll

Spec == ModelInit /\ [][Next]_vars

(***************************************************************************)
(* Vocabulary of the properties.                                           *)
(***************************************************************************)
Keys == DOMAIN co.deployedFiles

NameOf(path) == BaseName(PosixPath(path))

\* the entries of a manifest that a traversal visits: install-tagged
\* dependents and files, with a non-empty path
NamedEntries(m) ==
    {[path |-> d.Codebase, decl |-> d.coBase] :
        d \in {x \in Range(m.DependentAssembly) :
                  x.DependencyType = "install" /\ x.Codebase # EmptyPath}}
    \cup {[path |-> f.Name, decl |-> f.coBase] :
             f \in {x \in Range(m.File) : x.Name # EmptyPath}}

\* the manifests that the manifest entries of m declare (a declared digest
\* names the document)
NestedOf(w, m) ==
    {decodeManifest(w, e.decl.DigestValue[2]).assembly :
        e \in {x \in NamedEntries(m) :
                  /\ isManifest(NameOf(x.path))
                  /\ decodeManifest(w, x.decl.DigestValue[2]).err = NoErr}}

RECURSIVE Closure(_, _)
Closure(w, M) ==
    IF UNION {NestedOf(w, m) : m \in M} \subseteq M THEN M
    ELSE Closure(w, M \cup UNION {NestedOf(w, m) : m \in M})

ReachableEntries(w) == UNION {NamedEntries(m) : m \in Closure(w, {w.root})}

ReachablePaths(w) == {e.path : e \in ReachableEntries(w)}

\* a body has the size and the digest that an entry declares
Matches(decl, body) ==
    /\ Atoi(decl.Size).err = NoErr
    /\ Atoi(decl.Size).val = BodyLen(body)
    /\ ToLower(decl.Algorithm[2]) \in {"sha1", "sha256"}
    /\ decl.DigestValue = <<ToLower(decl.Algorithm[2]), body>>

\* a session in the state that a first successful Init leaves it in
Fresh(c) ==
    /\ Initialized(c)
    /\ c.baseUrl = rootUrl
    /\ c.deployedFiles = EmptyMap
    /\ c.subset.nil
    /\ ~c.noSuffix
    /\ ~c.offline

\* the last call was Get or GetAll on an initialized session
Retrieval == last.op \in {"Get", "GetAll"} /\ Initialized(last.pre)

\* the last call was Get(S) with a non-empty S, on an initialized session
GetSubset == last.op = "Get" /\ validSubset(last.subset) /\ Initialized(last.pre)

\* ... and S holds no empty name, so that the call was not rejected
GetValidSubset == GetSubset /\ <<>> \notin Range(last.subset.names)

\* the last call was GetAll or Get with a nil or empty subset
GetEverything ==
    /\ Initialized(last.pre)
    /\ last.op = "GetAll" \/ (last.op = "Get" /\ ~validSubset(last.subset))

Tr == last.trace

Resolves == {i \in DOMAIN Tr : Tr[i].ev = "resolve"}

Errors == {i \in DOMAIN Tr : Tr[i].ev = "error"}

Fetches == {i \in DOMAIN Tr : Tr[i].ev = "fetch"}

\* the event that ends the visit begun at resolve event i: only fetches lie
\* between the two
Outcome(i) ==
    CHOOSE j \in (i + 1)..Len(Tr) :
        Tr[j].ev \in {"add", "error"} /\ \A k \in (i + 1)..(j - 1) : Tr[k].ev = "fetch"

FetchesOf(i) == (i + 1)..(Outcome(i) - 1)

\* every response fetched by the last call matched its entry's declaration
AllFetchesMatch ==
    \A i \in Resolves : \A k \in FetchesOf(i) : Matches(Tr[i].decl, Tr[k].body)

Written(path) ==
    /\ DiskPath(co.outputDir, PosixPath(path)) \in DOMAIN disk
    /\ disk[DiskPath(co.outputDir, PosixPath(path))] = co.deployedFiles[path].Content

(***************************************************************************)
(* C1.                                                                     *)
(***************************************************************************)
\* C1 as stated: on a freshly initialized session, when every fetch
\* returns bytes matching the declared size and digest, GetAll leaves the
\* reachable non-empty paths as the keys of the result mapping.
C1_AsStated ==
    (last.op = "GetAll" /\ Fresh(last.pre) /\ AllFetchesMatch)
        => Keys = ReachablePaths(world)

\* C1 amended: the same, when moreover no visited entry fails (its size is
\* numeric, its algorithm supported, it is found, and a downloaded manifest
\* decodes).  Keys form a set, so a path named by several manifests
\* appears once.
C1_FullTraversal ==
    (last.op = "GetAll" /\ Fresh(last.pre) /\ AllFetchesMatch /\ Errors = {})
        => Keys = ReachablePaths(world)

\* a full traversal that followed n.manifest, whose file a.exe the root
\* manifest names too
C1_Witness ==
    /\ last.op = "GetAll" /\ Fresh(last.pre) /\ AllFetchesMatch /\ Errors = {}
    /\ world.root.File = <<fA>>
    /\ world.nested.File = <<fA>>
    /\ Keys = {pathN, pathA}

(***************************************************************************)
(* C2.                                                                     *)
(***************************************************************************)
\* C2: an entry whose download was attempted and answered is recorded
\* exactly when the body that was read has the declared size and digest; a
\* wrong size gives the size error, a wrong digest the digest error, and
\* the path is then not added; so every entry of the result mapping was
\* there before the call or holds a body matching its declaration.
C2_Verified ==
    /\ \A p \in Keys :
          \/ p \in DOMAIN last.pre.deployedFiles
             /\ co.deployedFiles[p] = last.pre.deployedFiles[p]
          \/ \E i \in Resolves :
                /\ Tr[i].path = p
                /\ Tr[Outcome(i)].ev = "add"
                /\ Matches(Tr[i].decl, co.deployedFiles[p].Content)
    /\ \A i \in Resolves :
          (FetchesOf(i) # {} /\ Tr[Outcome(i)].err # "not-found") =>
             /\ Tr[Outcome(i)].body \in {Tr[k].body : k \in FetchesOf(i)}
             /\ Tr[Outcome(i)].ev = "add" <=> Matches(Tr[i].decl, Tr[Outcome(i)].body)
             /\ Tr[Outcome(i)].err = "size-mismatch"
                   <=> Atoi(Tr[i].decl.Size).val # BodyLen(Tr[Outcome(i)].body)
             /\ Tr[Outcome(i)].err = "digest-mismatch"
                   <=> /\ Atoi(Tr[i].decl.Size).val = BodyLen(Tr[Outcome(i)].body)
                       /\ ~Matches(Tr[i].decl, Tr[Outcome(i)].body)
             /\ ( /\ Tr[Outcome(i)].ev = "error"
                  /\ \A j \in DOMAIN Tr : ~(Tr[j].ev = "add" /\ Tr[j].path = Tr[i].path) )
                   => Tr[i].path \notin Keys

\* a call that recorded one entry and rejected another for its digest
C2_Witness ==
    /\ \E i \in Resolves : Tr[Outcome(i)].ev = "add"
    /\ \E i \in Resolves : Tr[Outcome(i)].err = "digest-mismatch"

(***************************************************************************)
(* C3.                                                                     *)
(***************************************************************************)
\* C3: when a visit of the traversal run by Get or GetAll raised an error,
\* that call returns an error.
C3_ErrorsSurface == (Retrieval /\ Errors # {}) => last.err # NoErr

(***************************************************************************)
(* C4.                                                                     *)
(***************************************************************************)
\* C4: when the first fetch of an entry returned 404 and the fetch of the
\* URL without its extension succeeded with a body matching the
\* declaration, the entry is recorded with the body of that second
\* response and the session stops trying the suffix.
C4_SuffixFallback ==
    \A i \in Resolves :
        ( /\ FetchesOf(i) = {i + 1, i + 2}
          /\ Tr[i + 1].status = 404
          /\ Tr[i + 2].status # 404
          /\ Matches(Tr[i].decl, Tr[i + 2].body) )
        => /\ Tr[i + 3].ev = "add"
           /\ Tr[i + 3].body = Tr[i + 2].body
           /\ co.deployedFiles[Tr[i].path].Content = Tr[i + 2].body
           /\ co.noSuffix
           /\ \A k \in Fetches : k > i + 2 => LastOf(Tr[k].url.name) # deployedFileExtension

(***************************************************************************)
(* C5.                                                                     *)
(***************************************************************************)
\* C5: on a session that is not offline and on which earlier calls left
\* only a subset filter behind, Get with a nil or empty subset applies no
\* filter: when no visited entry fails, every reachable entry is retrieved
\* and, with an output directory, written.
C5_EmptyMeansAll ==
    ( /\ GetEverything
      /\ Fresh([last.pre EXCEPT !.subset = NilSubset])
      /\ Errors = {} )
    => /\ Keys = ReachablePaths(world)
       /\ co.outputDir # "" => \A p \in Keys : Written(p)

(***************************************************************************)
(* C6.                                                                     *)
(***************************************************************************)
\* the names asked of the last Get
S == Range(last.subset.names)

\* the keys of the result mapping are manifests or carry a name of S; the
\* reachable files with a name of S are keys; the reachable manifests are
\* keys
SubsetExact ==
    /\ \A p \in Keys : isManifest(NameOf(p)) \/ NameOf(p) \in S
    /\ \A p \in ReachablePaths(world) :
          (~isManifest(NameOf(p)) /\ NameOf(p) \in S) => p \in Keys
    /\ \A p \in ReachablePaths(world) : isManifest(NameOf(p)) => p \in Keys

\* C6 as stated: on a freshly initialized session, Get(S) with a non-empty
\* S leaves as keys only manifests and paths named in S, every reachable
\* file named in S, and every reachable manifest.
C6_AsStated == (GetSubset /\ Fresh(last.pre)) => SubsetExact

\* C6 amended: the same, when S holds no empty name and no visited entry
\* fails.
C6_SubsetExact ==
    (GetValidSubset /\ Fresh(last.pre) /\ Errors = {}) => SubsetExact

\* Get(a.exe) on a root manifest that names n.manifest and lib\b.dll, where
\* a.exe is named by n.manifest only
C6_Witness ==
    /\ GetValidSubset /\ Fresh(last.pre) /\ Errors = {}
    /\ last.subset.names = <<nmA>>
    /\ pathB \in ReachablePaths(world)
    /\ Keys = {pathN, pathA}

(***************************************************************************)
(* C7.                                                                     *)
(***************************************************************************)
\* C7 as stated: on an offline session (GetAll has succeeded), Get(S) with
\* a non-empty S fetches nothing, leaves the result mapping as it was, and
\* succeeds exactly when every member of S is the bare filename of a key.
C7_AsStated ==
    (last.op = "Get" /\ validSubset(last.subset) /\ last.pre.offline) =>
        /\ Tr = <<>>
        /\ co.deployedFiles = last.pre.deployedFiles
        /\ last.err = NoErr <=> \A s \in S : \E p \in Keys : NameOf(p) = s

\* C7: on an offline session that is still initialized (no Init has failed
\* to decode its document since the last Init that succeeded), Get(S) with
\* a non-empty S fetches nothing, leaves the result mapping as it was, and
\* succeeds exactly when every member of S is the bare filename of a key;
\* on any offline session it fetches nothing and leaves the mapping alone.
C7_OfflineReuse ==
    /\ (last.op = "Get" /\ validSubset(last.subset) /\ last.pre.offline) =>
            Tr = <<>> /\ co.deployedFiles = last.pre.deployedFiles
    /\ (GetSubset /\ last.pre.offline) =>
            (last.err = NoErr <=> \A s \in S : \E p \in Keys : NameOf(p) = s)

\* an offline Get that succeeds, and one that fails for a missing member
C7_Witness ==
    /\ GetSubset /\ last.pre.offline
    /\ last.subset.names = <<nmA, nmB>>
    /\ last.err = "not-all-found"
    /\ \E p \in Keys : NameOf(p) = nmA

(***************************************************************************)
(* C8.                                                                     *)
(***************************************************************************)
\* C8: whenever the offline flag is set, every reachable entry with a
\* non-empty path is a key of the result mapping.
C8_OfflineComplete == co.offline => ReachablePaths(world) \subseteq Keys

(***************************************************************************)
(* C9.                                                                     *)
(***************************************************************************)
\* a member of S was found by the last Get: the call recorded an entry of
\* that name or, offline, a key carries that name
Found(s) ==
    IF last.pre.offline THEN \E p \in Keys : NameOf(p) = s
    ELSE \E i \in DOMAIN Tr : Tr[i].ev = "add" /\ NameOf(Tr[i].path) = s

\* the entries of the result mapping named by a found member of S are in
\* the output directory, when one is configured
Persisted ==
    co.outputDir # "" =>
        \A p \in Keys : (NameOf(p) \in S /\ Found(NameOf(p))) => Written(p)

\* C9: a Get(S) that is not rejected fails with the not-found error when
\* no member of S was found, fails after persisting the found entries when
\* some but not all were found, and succeeds after persisting them when all
\* were found; on a fresh session whose manifest graph names no member of
\* S, the result mapping holds manifests only.
C9_Outcome ==
    GetValidSubset =>
        /\ (\A s \in S : ~Found(s)) => last.err = "none-found"
        /\ ((\E s \in S : Found(s)) /\ (\E s \in S : ~Found(s)))
              => (last.err = "not-all-found" /\ Persisted)
        /\ (\A s \in S : Found(s)) => (last.err = NoErr /\ Persisted)
        /\ (Fresh(last.pre) /\ \A p \in ReachablePaths(world) : NameOf(p) \notin S)
              => (last.err = "none-found" /\ \A p \in Keys : isManifest(NameOf(p)))

\* a Get that found one of two members and wrote it before failing
C9_Witness ==
    /\ GetValidSubset
    /\ last.subset.names = <<nmA, nmB>>
    /\ last.err = "not-all-found"
    /\ co.outputDir # ""
    /\ \E p \in Keys : NameOf(p) \in S /\ Found(NameOf(p)) /\ Written(p)

(***************************************************************************)
(* C10.                                                                    *)
(***************************************************************************)
\* C10: Get and GetAll on a session on which no Init has succeeded (the
\* base URL, set only by a successful Init, is still nil) fail with the
\* not-initialized error, fetch nothing, leave the session as it was and
\* the disk empty; the same holds, but for the disk, on a session whose
\* manifest a failed Init has taken away.
C10_NotInitialized ==
    /\ (last.op \in {"Get", "GetAll"} /\ ~Initialized(last.pre)) =>
            /\ last.err = "not-initialized"
            /\ Tr = <<>>
            /\ co = last.pre
    /\ (last.op \in {"Get", "GetAll"} /\ last.pre.baseUrl.nil) =>
            /\ ~Initialized(last.pre)
            /\ last.pre.deployedFiles = EmptyMap
            /\ last.pre.subset.nil
            /\ ~last.pre.offline
            /\ disk = EmptyMap

\* a Get or GetAll that follows a failed Init, no Init having succeeded
C10_Witness ==
    /\ last.op \in {"Get", "GetAll"}
    /\ last.pre.baseUrl.nil
    /\ initFailed
    /\ last.err = "not-initialized"

(***************************************************************************)
(* C11.                                                                    *)
(***************************************************************************)
\* C11: within one call of Get or GetAll, after the first entry whose
\* visit fails no further entry is resolved or fetched, whatever the
\* nesting level of the failure.
C11_ShortCircuit ==
    Retrieval =>
        \A i \in Errors : \A k \in Resolves \cup Fetches : k < i

(***************************************************************************)
(* C12.                                                                    *)
(***************************************************************************)
\* the resolve event before resolve event i, or 0
PrevResolve(i) ==
    IF \E j \in Resolves : j < i
    THEN CHOOSE j \in Resolves : j < i /\ \A k \in Resolves : k < i => k <= j
    ELSE 0

LastResolve == PrevResolve(Len(Tr) + 1)

\* the base URL that resolve event i leaves: the entry's URL for an
\* install-tagged dependent with the manifest extension, else the base URL
\* the entry was resolved against
BaseAfter(i) ==
    IF i = 0 THEN last.pre.baseUrl
    ELSE IF Tr[i].type = AssemblyDependency /\ isManifest(NameOf(Tr[i].path))
    THEN Tr[i].url
    ELSE Tr[i].base

\* C12: an Init that succeeds sets the base URL to the document's URL and
\* one that fails leaves it alone; outside Init the base URL changes only
\* when a dependent with the manifest extension is resolved, to that
\* dependent's URL; it is never restored, so each entry is resolved against
\* the base URL left by the entry resolved before it, across nesting levels
\* and across calls; a manifest that is a file entry leaves it alone.
C12_BaseUrl ==
    /\ last.op = "Init" =>
            co.baseUrl = IF last.err = NoErr THEN last.url ELSE last.pre.baseUrl
    /\ last.op # "Init" =>
            /\ \A i \in Resolves :
                  /\ Tr[i].base = BaseAfter(PrevResolve(i))
                  /\ Tr[i].url = UrlParse(Tr[i].base, PosixPath(Tr[i].path))
            /\ co.baseUrl = BaseAfter(LastResolve)

\* a pass that starts from the root manifest with the base URL a nested
\* manifest left in an earlier call, and a manifest file entry resolved
\* without a change of base URL
C12_Witness ==
    /\ Retrieval
    /\ last.pre.baseUrl # rootUrl
    /\ \E i \in Resolves :
          /\ PrevResolve(i) = 0
          /\ Tr[i].base = last.pre.baseUrl
          /\ Tr[i].type = NonAssemblyFile
          /\ isManifest(NameOf(Tr[i].path))
          /\ co.baseUrl = last.pre.baseUrl

(***************************************************************************)
(* C13.                                                                    *)
(***************************************************************************)
\* the manifests of a deployment with their locations: the root document
\* at the URL given to Init, and each manifest that a root entry names at
\* that entry's path relative to the root document (the manifests that
\* those name declare no further manifest path)
Located(w) ==
    {[m |-> w.root, url |-> rootUrl]}
    \cup {[m |-> decodeManifest(w, e.decl.DigestValue[2]).assembly,
           url |-> UrlParse(rootUrl, PosixPath(e.path))] :
            e \in {x \in NamedEntries(w.root) :
                      /\ isManifest(NameOf(x.path))
                      /\ decodeManifest(w, x.decl.DigestValue[2]).err = NoErr}}

\* C13: each entry is resolved against the location of a manifest that
\* declares it.
C13_BaseOfDeclaringManifest ==
    Retrieval =>
        \A i \in Resolves :
            \E l \in Located(world) :
                /\ Tr[i].path \in {e.path : e \in NamedEntries(l.m)}
                /\ Tr[i].base = l.url

(***************************************************************************)
(* C14.                                                                    *)
(***************************************************************************)
\* C14: a path that is a key before a call keeps its type and content and
\* the call neither resolves nor fetches it; a path recorded during a call
\* is not resolved, fetched or recorded again later in that call, and its
\* content is the recorded body.
C14_Dedup ==
    /\ \A p \in DOMAIN last.pre.deployedFiles :
          /\ p \in Keys
          /\ co.deployedFiles[p] = last.pre.deployedFiles[p]
          /\ \A k \in DOMAIN Tr : Tr[k].path # p
    /\ \A i \in DOMAIN Tr :
          Tr[i].ev = "add" =>
             /\ \A k \in DOMAIN Tr :
                   (k > i /\ Tr[k].ev \in {"resolve", "fetch", "add"})
                      => Tr[k].path # Tr[i].path
             /\ co.deployedFiles[Tr[i].path].Content = Tr[i].body

\* a pass over a root manifest that names a.exe, with a.exe asked for and
\* already a key, during which another entry is downloaded
C14_Witness ==
    /\ Retrieval
    /\ ~last.pre.offline
    /\ pathA \in DOMAIN last.pre.deployedFiles
    /\ fA \in Range(world.root.File)
    /\ (GetValidSubset /\ nmA \in S) \/ (GetEverything /\ last.pre.subset.nil)
    /\ \E i \in DOMAIN Tr : Tr[i].ev = "add"

(***************************************************************************)
(* C15.                                                                    *)
(***************************************************************************)
\* C15: a Get(S) whose members all name reachable entries, and during
\* which every fetch verifies and no visited entry fails, succeeds whatever
\* calls preceded it; and it sets the found flag of each member of S whose
\* file is already in the result mapping.
C15_RepeatedGet ==
    GetValidSubset =>
        /\ ( /\ \A s \in S : \E p \in ReachablePaths(world) : NameOf(p) = s
             /\ AllFetchesMatch
             /\ Errors = {} )
           => last.err = NoErr
        /\ \A s \in S :
              (\E p \in DOMAIN last.pre.deployedFiles : NameOf(p) = s)
                 => (s \in DOMAIN co.subset.m /\ co.subset.m[s])

(***************************************************************************)
(* C16.                                                                    *)
(***************************************************************************)
\* C16: a Get rejected for an empty filename in its subset fetches nothing
\* and leaves the session, the subset filter included, as it was.
C16_RejectedGet ==
    (last.op = "Get" /\ last.err = "empty-filename") =>
        /\ Tr = <<>>
        /\ co = last.pre

(***************************************************************************)
(* C17.                                                                    *)
(***************************************************************************)
\* the suffix hint when entry i is visited: false once the session has
\* recorded an entry after a fallback request
Hint(i) ==
    /\ ~last.pre.noSuffix
    /\ ~\E r \in Resolves :
           /\ r < i
           /\ Tr[Outcome(r)].ev = "add"
           /\ Cardinality(FetchesOf(r)) = 2

\* C17: an entry is fetched at most twice; first at its resolved URL, with
\* ".deploy" appended exactly when the hint is true and the entry is no
\* manifest; again only after a 404, at the first URL without its last
\* extension; two 404s give the not-found error and nothing is recorded;
\* no manifest is fetched at a ".deploy" URL.
C17_TwoStage ==
    Retrieval =>
        /\ \A i \in Resolves :
              /\ Cardinality(FetchesOf(i)) <= 2
              /\ FetchesOf(i) # {} =>
                    Tr[i + 1].url =
                       IF Hint(i) /\ ~isManifest(NameOf(Tr[i].path))
                       THEN AddSuffix(Tr[i].url) ELSE Tr[i].url
              /\ FetchesOf(i) = {i + 1} => Tr[i + 1].status # 404
              /\ (i + 2) \in FetchesOf(i) =>
                    /\ Tr[i + 1].status = 404
                    /\ Tr[i + 2].url = TrimExt(Tr[i + 1].url)
                    /\ Tr[i + 2].status = 404 =>
                          /\ Tr[i + 3].ev = "error"
                          /\ Tr[i + 3].err = "not-found"
                          /\ Outcome(i) = i + 3
        /\ \A k \in Fetches :
              isManifest(NameOf(Tr[k].path))
                 => LastOf(Tr[k].url.name) # deployedFileExtension
        /\ co.noSuffix = ~Hint(Len(Tr) + 1)

\* a file fetched with the suffix and then without it, not found either
\* way, in a call that also fetched a manifest
C17_Witness ==
    /\ Retrieval
    /\ \E i \in Resolves :
          /\ Hint(i)
          /\ FetchesOf(i) = {i + 1, i + 2}
          /\ Tr[i + 2].status = 404
          /\ Tr[i + 3].err = "not-found"
    /\ \E k \in Fetches : isManifest(NameOf(Tr[k].path))

(***************************************************************************)
(* C18.                                                                    *)
(***************************************************************************)
\* the entries of a manifest in the stated order: the install-tagged
\* dependents in declaration order, then the files in declaration order
InstallSeq(deps) ==
    [i \in DOMAIN SelectSeq(deps, LAMBDA d : d.DependencyType = "install") |->
        [path |-> SelectSeq(deps, LAMBDA d : d.DependencyType = "install")[i].Codebase,
         decl |-> SelectSeq(deps, LAMBDA d : d.DependencyType = "install")[i].coBase]]

FileSeq(files) ==
    [i \in DOMAIN files |-> [path |-> files[i].Name, decl |-> files[i].coBase]]

EntrySeq(m) == InstallSeq(m.DependentAssembly) \o FileSeq(m.File)

\* the names a call admits: every name, or the manifests and the names of
\* filter F
Admitted(F, name) == F.nil \/ isManifest(name) \/ name \in F.names

\* the filter in force during the last call
FilterInForce ==
    IF GetValidSubset THEN [nil |-> FALSE, names |-> S]
    ELSE [nil |-> last.pre.subset.nil, names |-> DOMAIN last.pre.subset.m]

Visited(acc, path) == [seen |-> acc.seen \cup {path}, order |-> Append(acc.order, path)]

\* the stated order of visits: depth-first, each entry of a manifest in
\* turn, a manifest's own entries before its next sibling; acc holds the
\* paths already recorded and the paths visited so far
RECURSIVE DepthFirst(_, _, _, _)
DepthFirst(w, es, acc, F) ==
    IF es = <<>> THEN acc
    ELSE IF \/ Head(es).path = EmptyPath
            \/ ~Admitted(F, NameOf(Head(es).path))
            \/ Head(es).path \in acc.seen
    THEN DepthFirst(w, Tail(es), acc, F)
    ELSE IF isManifest(NameOf(Head(es).path))
    THEN DepthFirst(w, Tail(es),
            DepthFirst(w,
                EntrySeq(decodeManifest(w, Head(es).decl.DigestValue[2]).assembly),
                Visited(acc, Head(es).path), F),
            F)
    ELSE DepthFirst(w, Tail(es), Visited(acc, Head(es).path), F)

\* the paths that the last call resolved, in order
ResolveOrder ==
    [i \in DOMAIN SelectSeq(Tr, LAMBDA e : e.ev = "resolve") |->
        SelectSeq(Tr, LAMBDA e : e.ev = "resolve")[i].path]

\* s is an initial part of t
IsPrefix(s, t) == Len(s) <= Len(t) /\ s = SubSeq(t, 1, Len(s))

\* the stated order of the visits of the last call
StatedOrder ==
    DepthFirst(world, EntrySeq(last.pre.assembly),
               [seen |-> DOMAIN last.pre.deployedFiles, order |-> <<>>],
               FilterInForce).order

\* the paths of s in the order of their first occurrence
RECURSIVE FirstVisits(_, _)
FirstVisits(s, acc) ==
    IF s = <<>> THEN acc
    ELSE FirstVisits(Tail(s),
            IF \E i \in DOMAIN acc : acc[i] = Head(s) THEN acc
            ELSE Append(acc, Head(s)))

\* C18: no call resolves or fetches a path that is declared only by
\* dependents that are not install-tagged; the entries that a traversal
\* visits are, in the order of their first visit, the first entries of the
\* depth-first declaration order (dependents before files in each manifest,
\* a manifest's own entries before its parent's next sibling): a traversal
\* may end early at an entry that fails, but it passes over no entry to
\* visit a later one, and one during which no entry fails visits them all.
C18_Order ==
    Retrieval =>
        /\ \A i \in DOMAIN Tr : Tr[i].path \in ReachablePaths(world)
        /\ IsPrefix(FirstVisits(ResolveOrder, <<>>), StatedOrder)
        /\ (~last.pre.offline /\ Errors = {} /\ last.err # "empty-filename") =>
              ResolveOrder = StatedOrder

(***************************************************************************)
(* C19.                                                                    *)
(***************************************************************************)
\* the resolve event after resolve event i, or 0
NextResolve(i) ==
    IF \E j \in Resolves : j > i
    THEN CHOOSE j \in Resolves : j > i /\ \A k \in Resolves : k > i => j <= k
    ELSE 0

\* the base URL once the visit begun at resolve event i is over
BaseLeft(i) ==
    IF NextResolve(i) = 0 THEN co.baseUrl ELSE Tr[NextResolve(i)].base

\* the errors of resolving or downloading an entry
VisitErrors ==
    {"size-not-numeric", "unsupported-algorithm", "not-found",
     "size-mismatch", "digest-mismatch"}

\* C19: a visit that fails to resolve or download its entry leaves the
\* base URL as it was; and a call whose only visit fails so leaves the
\* result mapping, the found flags, the no-suffix flag and the base URL as
\* they were.
C19_FailureFrame ==
    Retrieval =>
        /\ \A i \in Resolves :
              (Tr[Outcome(i)].ev = "error" /\ Tr[Outcome(i)].err \in VisitErrors)
                 => BaseLeft(i) = Tr[i].base
        /\ ( /\ GetEverything
             /\ Cardinality(Resolves) = 1
             /\ \A i \in Resolves :
                   Tr[Outcome(i)].ev = "error" /\ Tr[Outcome(i)].err \in VisitErrors )
           => /\ co.deployedFiles = last.pre.deployedFiles
              /\ co.subset = last.pre.subset
              /\ co.noSuffix = last.pre.noSuffix
              /\ co.baseUrl = last.pre.baseUrl

(***************************************************************************)
(* C20.                                                                    *)
(***************************************************************************)
\* the events that record a manifest
ManifestAdds == {i \in DOMAIN Tr : Tr[i].ev = "add" /\ isManifest(NameOf(Tr[i].path))}

ManifestPaths(P) == {p \in P : isManifest(NameOf(p))}

\* C20: every call returns, also when manifests name their own path; a
\* manifest path is recorded, and so descended into, at most once per
\* session: not when it is already a key, not twice in a call; hence the
\* descents of a session are at most as many as the manifest paths of the
\* deployment.
C20_Termination ==
    /\ \A i \in ManifestAdds :
          /\ Tr[i].path \notin DOMAIN last.pre.deployedFiles
          /\ \A k \in ManifestAdds : k # i => Tr[k].path # Tr[i].path
    /\ Cardinality(ManifestAdds)
          + Cardinality(ManifestPaths(DOMAIN last.pre.deployedFiles))
       <= Cardinality(ManifestPaths(ReachablePaths(world)))

\* a full traversal of a deployment whose n.manifest names its own path:
\* n.manifest is recorded once and its file after it
C20_Witness ==
    /\ last.op = "GetAll" /\ Fresh(last.pre)
    /\ dN \in Range(world.nested.DependentAssembly)
    /\ Cardinality({i \in ManifestAdds : Tr[i].path = pathN}) = 1
    /\ pathB \in Keys

=============================================================================
